---- MODULE Spec2Model ----
(***************************************************************************)
(* rocket-jwt-roles-demo: password login, HS256-signed role tokens kept in *)
(* a "jwt" cookie, and the role-gated handlers of src/main.rs.             *)
(*                                                                         *)
(* State: the users table (external store), the wall clock, the client's   *)
(* cookie jar (only the "jwt" cookie) and the outcome of the request that  *)
(* was handled last.  One action per route handler; the environment may    *)
(* advance the clock, edit the users table and let the client replace the  *)
(* cookie by any string it can build without knowing KEY.  saved is a copy *)
(* of a request and its cookie that the client keeps outside the jar.      *)
(***************************************************************************)
EXTENDS Integers, Sequences, FiniteSets, TLC

VARIABLES users, now, ticks, cookies, resp, saved

vars == <<users, now, ticks, cookies, resp, saved>>

---------------------------------------------------------------------------
(* Bounds and input sets *)

MaxTicks == 2
StartTime == 1000

KEY == "secret.key"
EvilKey == "attacker.key"

ONE_WEEK == 60 * 60 * 24 * 7

Usernames == {"alice", "bob", "mallory", "nobody"}
Passwords == {"correct", "wrong"}
Paths == {"index", "user", "secret"}
RoleLists == {<<>>, <<"admin">>, <<"user", "admin">>}
\* the users whose row the store's owner edits
EditedUsers == {"alice"}
TickSteps == {1, ONE_WEEK - 1}

---------------------------------------------------------------------------
(* Argon2 encoded hashes (argon2rs::verifier::Encoded) *)

Argon2(salt, password) == <<salt, password>>

EncodedHash(salt, password) ==
    [wellformed |-> TRUE, salt |-> salt, hash |-> Argon2(salt, password)]

MalformedHash == [wellformed |-> FALSE, salt |-> "", hash |-> <<"", "">>]

\* Encoded::from_u8: Err on a string that is not an encoded hash
Encoded_from_u8(pw_hash) == [ok |-> pw_hash.wellformed, enc |-> pw_hash]

\* Encoded::verify: rehash the candidate with the stored salt and compare
Encoded_verify(enc, password) == enc.hash = Argon2(enc.salt, password)

---------------------------------------------------------------------------
(* The users table.  A row is models::User; a missing row has present     *)
(* FALSE.                                                                  *)

User(name, pw_hash, roles) ==
    [present |-> TRUE, username |-> name, pw_hash |-> pw_hash, user_roles |-> roles]

NoRow == [present |-> FALSE, username |-> "", pw_hash |-> MalformedHash, user_roles |-> <<>>]

InitUsers ==
    [u \in Usernames |->
        CASE u = "alice"   -> User(u, EncodedHash("s1", "correct"), <<"admin">>)
          [] u = "bob"     -> User(u, EncodedHash("s2", "correct"), <<"Admin", "superadmin">>)
          [] u = "mallory" -> User(u, MalformedHash, <<"admin">>)
          [] OTHER         -> NoRow]

\* users.filter(username.eq(name)).first(&connection)
first(table, name) ==
    IF name \in DOMAIN table /\ table[name].present
    THEN [ok |-> TRUE, row |-> table[name]]
    ELSE [ok |-> FALSE, row |-> NoRow]

---------------------------------------------------------------------------
(* JSON web tokens.  A token string is its sequence of dot-separated       *)
(* segments.  A segment is base64 of a JSON object (kind "json"), base64   *)
(* of an HMAC tag (kind "mac"), or any other text (kind "raw").            *)

JNum(n) == [t |-> "num", n |-> n, s |-> "", a |-> <<>>]
JStr(s) == [t |-> "str", n |-> 0, s |-> s, a |-> <<>>]
JArr(a) == [t |-> "arr", n |-> 0, s |-> "", a |-> a]

B64Json(obj) == [kind |-> "json", json |-> obj, key |-> "", msg |-> <<>>]
B64Mac(key, msg) == [kind |-> "mac", json |-> <<>>, key |-> key, msg |-> msg]
RawSegment == [kind |-> "raw", json |-> <<>>, key |-> "", msg |-> <<>>]

\* struct UserRolesToken { iat, exp, user, roles }
UserRolesToken(iat, exp, user, roles) ==
    [iat |-> iat, exp |-> exp, user |-> user, roles |-> roles]

NoClaims == UserRolesToken(0, 0, "", <<>>)

\* The indices of the members of a JSON object named k with a value of type t
Members(obj, k, t) == {i \in DOMAIN obj : obj[i][1] = k /\ obj[i][2].t = t}

Member(obj, k, t) == obj[CHOOSE i \in Members(obj, k, t) : \A j \in Members(obj, k, t) : i <= j][2]

\* The elements of a sequence in reverse order
Reverse(seq) == [i \in 1..Len(seq) |-> seq[Len(seq) + 1 - i]]

\* Claims_to_base64 that writes the roles array back to front
Claims_to_base64_reversed(c) ==
    [kind |-> "json",
     json |-> << <<"iat", [t |-> "num", n |-> c.iat, s |-> "", a |-> <<>>]>>,
                 <<"exp", [t |-> "num", n |-> c.exp, s |-> "", a |-> <<>>]>>,
                 <<"user", [t |-> "str", n |-> 0, s |-> c.user, a |-> <<>>]>>,
                 <<"roles", [t |-> "arr", n |-> 0, s |-> "", a |-> Reverse(c.roles)]>> >>,
     key |-> "", msg |-> <<>>]

\* RustcEncodable for UserRolesToken, then base64: the fields in declaration order
Claims_to_base64(c) ==
    B64Json(<< <<"iat", JNum(c.iat)>>, <<"exp", JNum(c.exp)>>,
               <<"user", JStr(c.user)>>, <<"roles", JArr(c.roles)>> >>)

\* RustcDecodable for UserRolesToken: every field present with its type
Claims_from_base64(seg) ==
    IF /\ seg.kind = "json"
       /\ Members(seg.json, "iat", "num") # {}
       /\ Members(seg.json, "exp", "num") # {}
       /\ Members(seg.json, "user", "str") # {}
       /\ Members(seg.json, "roles", "arr") # {}
    THEN [ok |-> TRUE,
          claims |-> UserRolesToken(Member(seg.json, "iat", "num").n,
                                    Member(seg.json, "exp", "num").n,
                                    Member(seg.json, "user", "str").s,
                                    Member(seg.json, "roles", "arr").a)]
    ELSE [ok |-> FALSE, claims |-> NoClaims]

\* Header::default(): {"typ": "JWT", "alg": "HS256"}
Header(alg) == B64Json(<< <<"typ", JStr("JWT")>>, <<"alg", JStr(alg)>> >>)

Algorithms == {"HS256", "HS384", "HS512"}

Header_from_base64(seg) ==
    IF /\ seg.kind = "json"
       /\ Members(seg.json, "alg", "str") # {}
       /\ Member(seg.json, "alg", "str").s \in Algorithms
    THEN [ok |-> TRUE, alg |-> Member(seg.json, "alg", "str").s]
    ELSE [ok |-> FALSE, alg |-> ""]

\* jwt::sign: the HMAC tag of the signing input under the secret
sign(signing_input, secret) == B64Mac(secret, signing_input)

\* jwt::verify: recompute the tag and compare
verify(signature, signing_input, secret) == signature = sign(signing_input, secret)

\* str::rsplitn(2, '.'): the last segment and everything before it
Last(s) == s[Len(s)]
Front(s) == SubSeq(s, 1, Len(s) - 1)

\* jwt::encode(Header::default(), &payload, KEY)
encode(header, claims, secret) ==
    LET signing_input == <<header, Claims_to_base64(claims)>>
    IN  signing_input \o <<sign(signing_input, secret)>>

DecodeErr(e) == [ok |-> FALSE, err |-> e, claims |-> NoClaims]

\* decode without the signature check (a broken library)
decode_unverified(token, secret, algorithm) ==
    IF Len(token) < 3 THEN DecodeErr("InvalidToken")
    ELSE LET payload == Front(token)
             h == Header_from_base64(Front(payload)[1])
             c == Claims_from_base64(Last(payload))
         IN  IF ~(h.ok /\ c.ok) THEN DecodeErr("Malformed")
             ELSE [ok |-> TRUE, err |-> "", claims |-> c.claims]

\* jwt::decode::<UserRolesToken>(&token, KEY, Algorithm::HS256)
decode(token, secret, algorithm) ==
    IF Len(token) < 2 THEN DecodeErr("InvalidToken")
    ELSE LET signature == Last(token)
             payload == Front(token)
         IN  IF ~verify(signature, payload, secret) THEN DecodeErr("InvalidSignature")
             ELSE IF Len(payload) < 2 THEN DecodeErr("InvalidToken")
             ELSE LET h == IF Len(payload) = 2
                           THEN Header_from_base64(payload[1])
                           ELSE [ok |-> FALSE, alg |-> ""]
                      c == Claims_from_base64(Last(payload))
                  IN  IF ~h.ok THEN DecodeErr("Base64")
                      ELSE IF h.alg # algorithm THEN DecodeErr("WrongAlgorithmHeader")
                      ELSE IF ~c.ok THEN DecodeErr("JsonDecode")
                      ELSE [ok |-> TRUE, err |-> "", claims |-> c.claims]

\* is_expired with the boundary excluded
is_expired_strict(claims, t) == t > claims.exp

\* UserRolesToken::is_expired, at clock value t
is_expired(claims, t) == t >= claims.exp

\* UserRolesToken::is_claimed_user
is_claimed_user(claims, claimed_user) == claims.user = claimed_user

\* str::to_lowercase on the role names of this model
to_lowercase(s) == IF s = "Admin" THEN "admin" ELSE s

\* has_role comparing case-insensitively
has_role_ignore_case(claims, role) ==
    \E i \in DOMAIN claims.roles : to_lowercase(claims.roles[i]) = to_lowercase(role)

\* UserRolesToken::has_role: Vec::contains, string equality
has_role(claims, role) == \E i \in DOMAIN claims.roles : claims.roles[i] = role

\* jwt_generate that sets exp to the lifetime instead of now + lifetime
jwt_generate_exp_not_offset(user, roles, t) ==
    encode(Header("HS256"), UserRolesToken(t, ONE_WEEK, user, roles), KEY)

\* jwt_generate(user, roles), at clock value t
jwt_generate(user, roles, t) ==
    encode(Header("HS256"), UserRolesToken(t, t + ONE_WEEK, user, roles), KEY)

---------------------------------------------------------------------------
(* Responses.  kind is "redirect" (Redirect::to), "template"              *)
(* (Template::render), "notfound" (a handler returning None), "panic"     *)
(* (the handler unwound: unwrap/expect on an Err) or "none" (no request   *)
(* handled since the environment last changed).  db tells what the        *)
(* request did with the store: "unused" (establish_connection not         *)
(* called), "failed" (PgConnection::establish returned Err) or "queried". *)

Out(kind, location, view, context, db) ==
    [kind |-> kind, location |-> location, view |-> view, context |-> context, db |-> db]

Redirect_to(location, db) == Out("redirect", location, "", {}, db)
Template_render(view, context, db) == Out("template", "", view, context, db)
NotFound == Out("notfound", "", "", {}, "unused")
Panic(db) == Out("panic", "", "", {}, db)
NoOut == Out("none", "", "", {}, "unused")

\* The cookie jar holds at most the "jwt" cookie
NoCookie == [present |-> FALSE, value |-> <<>>]
Cookie_new(value) == [present |-> TRUE, value |-> value]

\* establish_connection: connOk is whether PgConnection::establish succeeds
establish_connection(connOk) == IF connOk THEN "queried" ELSE "failed"

\* login that drops the cookie when the credentials are refused
login_clearing_on_failure(jar, table, t, username, password, connOk) ==
    LET connection == establish_connection(connOk)
        r == first(table, username)
    IN  IF connection = "failed" THEN [cookies |-> jar, out |-> Panic(connection)]
        ELSE IF r.ok /\ ~r.row.pw_hash.wellformed
        THEN [cookies |-> jar, out |-> Panic(connection)]
        ELSE IF ~r.ok \/ ~Encoded_verify(r.row.pw_hash, password)
        THEN [cookies |-> NoCookie, out |-> Redirect_to("/login", connection)]
        ELSE [cookies |-> Cookie_new(jwt_generate(r.row.username, r.row.user_roles, t)),
              out |-> Redirect_to("/", connection)]

\* login
login(jar, table, t, username, password, connOk) ==
    LET connection == establish_connection(connOk) IN
    IF connection = "failed" THEN [cookies |-> jar, out |-> Panic(connection)]
    ELSE LET r == first(table, username) IN
         IF ~r.ok THEN [cookies |-> jar, out |-> Redirect_to("/login", connection)]
         ELSE LET db_hash == Encoded_from_u8(r.row.pw_hash) IN
              IF ~db_hash.ok THEN [cookies |-> jar, out |-> Panic(connection)]
              ELSE IF ~Encoded_verify(db_hash.enc, password)
              THEN [cookies |-> jar, out |-> Redirect_to("/login", connection)]
              ELSE [cookies |-> Cookie_new(jwt_generate(r.row.username, r.row.user_roles, t)),
                    out |-> Redirect_to("/", connection)]

\* logout that sends a client without a cookie to the login page
logout_needs_cookie(jar) ==
    IF jar.present
    THEN [cookies |-> NoCookie, out |-> Redirect_to("/", "unused")]
    ELSE [cookies |-> NoCookie, out |-> Redirect_to("/login", "unused")]

\* logout
logout(jar) == [cookies |-> NoCookie, out |-> Redirect_to("/", "unused")]

\* admin_index
admin_index ==
    Template_render("admin/index", {<<"message", <<"Congrats, you're an admin.">> >>}, "unused")

\* display_user
display_user(user, table, connOk) ==
    LET connection == establish_connection(connOk) IN
    IF connection = "failed" THEN Panic(connection)
    ELSE LET r == first(table, user) IN
         IF ~r.ok THEN Panic(connection)
         ELSE Template_render("admin/console",
                              {<<"user", <<r.row.username, ", ">> \o r.row.user_roles>>},
                              connection)

\* admin_handler that goes on to the dispatch when there is no cookie
admin_handler_no_cookie_check(jar, path, table, connOk) ==
    CASE path = "index" -> admin_index
      [] path = "user"  -> display_user("", table, connOk)
      [] OTHER          -> NotFound

\* admin_handler that takes the roles from the subject's row in the store
admin_handler_store_roles(jar, path, table, connOk) ==
    IF ~jar.present THEN NotFound
    ELSE LET token_data == decode(jar.value, KEY, "HS256") IN
         IF ~token_data.ok THEN Panic("unused")
         ELSE IF ~(\E i \in DOMAIN first(table, token_data.claims.user).row.user_roles :
                      first(table, token_data.claims.user).row.user_roles[i] = "admin")
         THEN NotFound
         ELSE CASE path = "index" -> admin_index
                [] path = "user"  -> display_user(token_data.claims.user, table, connOk)
                [] OTHER          -> NotFound

\* admin_handler that refuses a token whose subject has no row in the store
admin_handler_checks_store(jar, path, table, connOk) ==
    IF ~jar.present THEN NotFound
    ELSE LET token_data == decode(jar.value, KEY, "HS256") IN
         IF ~token_data.ok THEN Panic("unused")
         ELSE IF ~has_role(token_data.claims, "admin") THEN NotFound
         ELSE IF ~first(table, token_data.claims.user).ok THEN NotFound
         ELSE CASE path = "index" -> admin_index
                [] path = "user"  -> display_user(token_data.claims.user, table, connOk)
                [] OTHER          -> NotFound

\* admin_handler
admin_handler(jar, path, table, connOk) ==
    IF ~jar.present THEN NotFound
    ELSE LET token_data == decode(jar.value, KEY, "HS256") IN
         IF ~token_data.ok THEN Panic("unused")
         ELSE IF ~has_role(token_data.claims, "admin") THEN NotFound
         ELSE CASE path = "index" -> admin_index
                [] path = "user"  -> display_user(token_data.claims.user, table, connOk)
                [] OTHER          -> NotFound

\* index that puts the admin marker into every context
index_admin_always(jar) ==
    IF ~jar.present THEN Redirect_to("/login", "unused")
    ELSE LET token_data == decode(jar.value, KEY, "HS256") IN
         IF ~token_data.ok THEN Panic("unused")
         ELSE Template_render("index",
                  {<<"name", <<token_data.claims.user>> >>, <<"admin", <<"true">> >>},
                  "unused")

\* index
index(jar) ==
    IF ~jar.present THEN Redirect_to("/login", "unused")
    ELSE LET token_data == decode(jar.value, KEY, "HS256") IN
         IF ~token_data.ok THEN Panic("unused")
         ELSE Template_render("index",
                  {<<"name", <<token_data.claims.user>> >>}
                  \cup (IF has_role(token_data.claims, "admin")
                        THEN {<<"admin", <<"true">> >>} ELSE {}),
                  "unused")

---------------------------------------------------------------------------
(* The request handled last: the route, its inputs, the cookie presented  *)
(* and the outcome.                                                        *)

Request(op, path, username, password, presented, out) ==
    [op |-> op, path |-> path, username |-> username, password |-> password,
     presented |-> presented, out |-> out]

NoRequest == Request("none", "", "", "", NoCookie, NoOut)

\* The client's copy: a request it made, with the cookie it presented and the
\* outcome it got; replayed tells that the copy was put back into an empty jar
Saved(req, replayed) == [req |-> req, replayed |-> replayed]

NothingSaved == Saved(NoRequest, FALSE)

Init ==
    /\ users = InitUsers
    /\ now = StartTime
    /\ ticks = 0
    /\ cookies = NoCookie
    /\ resp = NoRequest
    /\ saved = NothingSaved

\* POST /login that also rewrites the row of the user who logged in
Login_writing_store ==
    \E username \in Usernames, password \in Passwords, connOk \in BOOLEAN :
        LET r == login(cookies, users, now, username, password, connOk) IN
        /\ cookies' = r.cookies
        /\ resp' = Request("login", "", username, password, cookies, r.out)
        /\ users' = IF r.out.kind = "redirect" /\ r.out.location = "/"
                    THEN [users EXCEPT ![username].user_roles = <<>>]
                    ELSE users
        /\ UNCHANGED <<now, ticks, saved>>

\* POST /login
Login ==
    \E username \in Usernames, password \in Passwords, connOk \in BOOLEAN :
        LET r == login(cookies, users, now, username, password, connOk) IN
        /\ cookies' = r.cookies
        /\ resp' = Request("login", "", username, password, cookies, r.out)
        /\ UNCHANGED <<users, now, ticks, saved>>

\* POST /logout
Logout ==
    LET r == logout(cookies) IN
    /\ cookies' = r.cookies
    /\ resp' = Request("logout", "", "", "", cookies, r.out)
    /\ UNCHANGED <<users, now, ticks, saved>>

\* GET /admin/<path>
AdminHandler ==
    \E path \in Paths, connOk \in BOOLEAN :
        /\ resp' = Request("admin", path, "", "", cookies,
                           admin_handler(cookies, path, users, connOk))
        /\ UNCHANGED <<users, now, ticks, cookies, saved>>

\* GET /
Index ==
    /\ resp' = Request("index", "", "", "", cookies, index(cookies))
    /\ UNCHANGED <<users, now, ticks, cookies, saved>>

---------------------------------------------------------------------------
(* The environment: the clock, the external users table, and a client     *)
(* that sends whatever cookie it likes.  None of these is a handler.  The *)
(* last outcome is forgotten when the environment moves, so a recorded    *)
(* outcome is always the outcome under the current table and clock.       *)

\* The claims an attacker would like to present
ForgedClaims == UserRolesToken(StartTime, StartTime + 4 * ONE_WEEK, "alice", <<"admin">>)

ForgedPayload == <<Header("HS256"), Claims_to_base64(ForgedClaims)>>

\* Cookie values built without KEY
ForgedTokens ==
    { <<RawSegment>>,
      ForgedPayload,
      ForgedPayload \o <<RawSegment>>,
      ForgedPayload \o <<sign(ForgedPayload, EvilKey)>>,
      <<Header("none"), Claims_to_base64(ForgedClaims), RawSegment>>,
      <<RawSegment>> \o ForgedPayload \o <<sign(ForgedPayload, EvilKey)>> }

\* time passes
Tick ==
    \E d \in TickSteps :
        /\ ticks < MaxTicks
        /\ now' = now + d
        /\ ticks' = ticks + 1
        /\ resp' = NoRequest
        /\ UNCHANGED <<users, cookies, saved>>

\* the store's owner changes a user's roles
SetRoles ==
    \E u \in EditedUsers, roles \in RoleLists :
        /\ users[u].present
        /\ users[u].user_roles # roles
        /\ users' = [users EXCEPT ![u].user_roles = roles]
        /\ resp' = NoRequest
        /\ UNCHANGED <<now, ticks, cookies, saved>>

\* the store's owner deletes a user
DeleteUser ==
    \E u \in EditedUsers :
        /\ users[u].present
        /\ users' = [users EXCEPT ![u] = NoRow]
        /\ resp' = NoRequest
        /\ UNCHANGED <<now, ticks, cookies, saved>>

\* the client sends a cookie it made up
ForgeCookie ==
    \E t \in ForgedTokens :
        /\ cookies' = Cookie_new(t)
        /\ resp' = NoRequest
        /\ UNCHANGED <<users, now, ticks, saved>>

\* the client alters the signature segment of the cookie it holds
TamperSignature ==
    /\ cookies.present
    /\ Len(cookies.value) = 3
    /\ \E sig \in {RawSegment, sign(Front(cookies.value), EvilKey)} :
           /\ sig # Last(cookies.value)
           /\ cookies' = Cookie_new(Front(cookies.value) \o <<sig>>)
    /\ resp' = NoRequest
    /\ UNCHANGED <<users, now, ticks, saved>>

\* the client swaps the claims segment of the cookie it holds, keeping the signature
TamperClaims ==
    /\ cookies.present
    /\ Len(cookies.value) = 3
    /\ cookies.value[2] # Claims_to_base64(ForgedClaims)
    /\ cookies' = Cookie_new([cookies.value EXCEPT ![2] = Claims_to_base64(ForgedClaims)])
    /\ resp' = NoRequest
    /\ UNCHANGED <<users, now, ticks, saved>>

Next ==
    \/ Login
    \/ Logout
    \/ AdminHandler
    \/ Index
    \/ Tick
    \/ SetRoles
    \/ DeleteUser
    \/ ForgeCookie
    \/ TamperSignature
    \/ TamperClaims

Spec == Init /\ [][Next]_vars

---------------------------------------------------------------------------
(* A client that sends only what the server set.                          *)

NextHonest ==
    \/ Login
    \/ Logout
    \/ AdminHandler
    \/ Index
    \/ Tick
    \/ SetRoles
    \/ DeleteUser

SpecHonest == Init /\ [][NextHonest]_vars

---------------------------------------------------------------------------
(* UserRolesToken::is_expired is called by no handler.  IsExpired is a    *)
(* caller that decodes the held cookie and asks whether its claims are    *)
(* expired at the current clock value.                                    *)

IsExpired ==
    /\ cookies.present
    /\ decode(cookies.value, KEY, "HS256").ok
    /\ resp' = Request("is_expired", "", "", "", cookies,
                       Out(IF is_expired(decode(cookies.value, KEY, "HS256").claims, now)
                           THEN "expired" ELSE "fresh", "", "", {}, "unused"))
    /\ UNCHANGED <<users, now, ticks, cookies, saved>>

NextExpiry ==
    \/ Login
    \/ Logout
    \/ Tick
    \/ SetRoles
    \/ IsExpired

SpecExpiry == Init /\ [][NextExpiry]_vars

---------------------------------------------------------------------------
(* A client that keeps a copy of its cookie and presents it again after   *)
(* logging out.                                                            *)

\* the client copies the cookie with which it was just shown a page
CopyCookie ==
    /\ resp.op \in {"index", "admin"}
    /\ resp.presented.present
    /\ resp.presented = cookies
    /\ resp.out.kind = "template"
    /\ resp.out.db = "unused"
    /\ saved' = Saved(resp, FALSE)
    /\ UNCHANGED <<users, now, ticks, cookies, resp>>

\* the client puts its copy back into the jar that a logout emptied
ReplayCookie ==
    /\ ~cookies.present
    /\ saved.req.presented.present
    /\ cookies' = saved.req.presented
    /\ saved' = Saved(saved.req, TRUE)
    /\ resp' = NoRequest
    /\ UNCHANGED <<users, now, ticks>>

NextReplay ==
    \/ Login
    \/ Logout
    \/ AdminHandler
    \/ Index
    \/ Tick
    \/ DeleteUser
    \/ CopyCookie
    \/ ReplayCookie

SpecReplay == Init /\ [][NextReplay]_vars

---------------------------------------------------------------------------
(* Properties.  A recorded outcome (resp.op # "none") was computed under  *)
(* the current users table and clock: every environment step clears it.  *)

\* What decode makes of the cookie the last request presented
PresentedData == decode(resp.presented.value, KEY, "HS256")

\* The last segment of tok is the HMAC under KEY of the segments before it
SignedWithKey(tok) ==
    /\ Len(tok) >= 2
    /\ Last(tok).kind = "mac"
    /\ Last(tok).key = KEY
    /\ Last(tok).msg = Front(tok)

\* The role list names "admin" exactly
NamesAdmin(roles) == \E i \in DOMAIN roles : roles[i] = "admin"

GatedRequest == resp.op \in {"admin", "index"}

\* The stored hash of the looked-up user accepts the submitted password
PasswordVerifies ==
    /\ first(users, resp.username).ok
    /\ users[resp.username].pw_hash.wellformed
    /\ users[resp.username].pw_hash.hash = Argon2(users[resp.username].pw_hash.salt, resp.password)

\* The generic invalid-credentials outcome of POST /login
InvalidCredentialsOutcome ==
    /\ resp.out.kind = "redirect"
    /\ resp.out.location = "/login"
    /\ cookies = resp.presented

\* C1: a request to GET / or GET /admin/<path> presenting a validly signed
\* token whose expiry has passed (now >= exp) is treated as unauthenticated:
\* not-found on the admin route, a redirect to /login on the index route, and
\* never a rendered page.
C1_ExpiredIsUnauthenticated ==
    (GatedRequest /\ resp.presented.present /\ PresentedData.ok
        /\ now >= PresentedData.claims.exp)
    => /\ resp.out.kind # "template"
       /\ resp.op = "admin" => resp.out.kind = "notfound"
       /\ resp.op = "index" => (resp.out.kind = "redirect" /\ resp.out.location = "/login")

\* C2: for every cookie that is malformed, wrongly signed or expired, the
\* handlers of GET / and GET /admin/<path> complete with a normal response:
\* no such request ends in a panic.
C2_NoPanicOnBadCookie ==
    (GatedRequest /\ resp.presented.present
        /\ (~PresentedData.ok \/ now >= PresentedData.claims.exp))
    => resp.out.kind # "panic"

\* C3: a request whose token fails to decode gets exactly the response of the
\* same request without a cookie: not-found on GET /admin/<path>, a redirect
\* to /login on GET /.
C3_DecodeFailureLikeNoCookie ==
    (GatedRequest /\ resp.presented.present /\ ~PresentedData.ok)
    => resp.out = (IF resp.op = "admin"
                   THEN admin_handler(NoCookie, resp.path, users, TRUE)
                   ELSE index(NoCookie))

\* C4: a token whose signature segment is not the HMAC under KEY of its
\* signing input is refused by decode with a bad-signature error, and no
\* admin page or index page is ever rendered from such a token.
C4_UnsignedNeverRendered ==
    (GatedRequest /\ resp.presented.present /\ ~SignedWithKey(resp.presented.value))
    => /\ ~PresentedData.ok
       /\ Len(resp.presented.value) >= 2 => PresentedData.err = "InvalidSignature"
       /\ resp.out.kind # "template"

\* C4 witness: the token minted for alice, its signature segment altered, was
\* presented to the admin route and refused.
C4_Witness ==
    /\ resp.op = "admin"
    /\ resp.presented.present
    /\ Len(resp.presented.value) = 3
    /\ Front(resp.presented.value) = Front(jwt_generate("alice", <<"admin">>, StartTime))
    /\ Last(resp.presented.value) # Last(jwt_generate("alice", <<"admin">>, StartTime))
    /\ resp.out.kind = "panic"

\* C5: a request without the jwt cookie is unauthenticated whatever the
\* route requires: GET /admin/<path> answers not-found for every sub-path,
\* without touching the store, and GET / redirects to /login.
C5_NoCookieUnauthenticated ==
    (GatedRequest /\ ~resp.presented.present)
    => /\ resp.op = "admin" => (resp.out.kind = "notfound" /\ resp.out.db = "unused")
       /\ resp.op = "index" => (resp.out.kind = "redirect" /\ resp.out.location = "/login")

\* C5 witness: GET /admin/user without a cookie, while the store holds an admin.
C5_Witness ==
    /\ resp.op = "admin"
    /\ resp.path = "user"
    /\ ~resp.presented.present
    /\ users["alice"].present
    /\ resp.out.kind = "notfound"

\* C6: an admin view is rendered only from a token whose role list contains
\* the exact string "admin"; a valid token without it gets not-found on every
\* sub-path and the store is not looked up.
C6_AdminRoleExact ==
    /\ (resp.op = "admin" /\ resp.out.kind = "template")
       => (resp.presented.present /\ PresentedData.ok /\ NamesAdmin(PresentedData.claims.roles))
    /\ (resp.op = "admin" /\ resp.presented.present /\ PresentedData.ok
          /\ ~NamesAdmin(PresentedData.claims.roles))
       => (resp.out.kind = "notfound" /\ resp.out.db = "unused")

\* C6 witness: the near-miss roles "Admin", "superadmin" were presented to
\* GET /admin/index and refused.
C6_Witness ==
    /\ resp.op = "admin"
    /\ resp.path = "index"
    /\ resp.presented.present
    /\ PresentedData.ok
    /\ PresentedData.claims.roles = <<"Admin", "superadmin">>
    /\ resp.out.kind = "notfound"

\* C7: POST /login for an existing user with a password that does not verify
\* has the outcome of POST /login for a username that is not in the store:
\* the same redirect to /login and the jwt cookie unchanged.
C7_NoUserEnumeration ==
    (resp.op = "login" /\ resp.out.db = "queried"
        /\ first(users, resp.username).ok /\ ~PasswordVerifies)
    => /\ resp.out = login(resp.presented, users, now, "nobody", resp.password, TRUE).out
       /\ cookies = login(resp.presented, users, now, "nobody", resp.password, TRUE).cookies

\* C8: when the stored hash of the looked-up user is a malformed encoding,
\* POST /login redirects to /login, sets no cookie and does not crash.
C8_MalformedHashIsFailure ==
    (resp.op = "login" /\ resp.out.db = "queried"
        /\ first(users, resp.username).ok
        /\ ~users[resp.username].pw_hash.wellformed)
    => (resp.out.kind # "panic" /\ InvalidCredentialsOutcome)

\* C9: POST /login has two outcomes: if the user exists and the password
\* verifies, the jwt cookie holds a token with the subject and roles of the
\* user's row and the response redirects to /; otherwise the response
\* redirects to /login and the jwt cookie is as before.
C9_LoginTwoOutcomes ==
    resp.op = "login"
    => IF PasswordVerifies
       THEN /\ resp.out.kind = "redirect"
            /\ resp.out.location = "/"
            /\ cookies.present
            /\ decode(cookies.value, KEY, "HS256").ok
            /\ decode(cookies.value, KEY, "HS256").claims.user = users[resp.username].username
            /\ decode(cookies.value, KEY, "HS256").claims.roles = users[resp.username].user_roles
       ELSE InvalidCredentialsOutcome

\* C10: no store-lookup failure crashes a request: a missing row or a failed
\* connection during POST /login gives the invalid-credentials outcome, and
\* GET /admin/user with a valid admin token whose subject has left the store
\* completes without a panic.
C10_StoreFailureNoCrash ==
    /\ (resp.op = "login" /\ (resp.out.db = "failed" \/ ~first(users, resp.username).ok))
       => InvalidCredentialsOutcome
    /\ (resp.op = "admin" /\ resp.path = "user" /\ resp.presented.present
          /\ PresentedData.ok /\ NamesAdmin(PresentedData.claims.roles)
          /\ ~first(users, PresentedData.claims.user).ok)
       => resp.out.kind # "panic"

\* What decode makes of the cookie the client holds now
HeldData == decode(cookies.value, KEY, "HS256")

\* The last request was a POST /login that succeeded
LoginSucceeded == resp.op = "login" /\ resp.out.kind = "redirect" /\ resp.out.location = "/"

\* C11: the token issued by a successful login of user u with role list R
\* decodes, when presented back, to claims with subject u and roles R (same
\* elements, same order); if R contains "admin" the token is authorized on
\* /admin/index.
C11_IssuedTokenRoundTrip ==
    LoginSucceeded
    => /\ cookies.present
       /\ HeldData.ok
       /\ HeldData.claims.user = resp.username
       /\ HeldData.claims.user = users[resp.username].username
       /\ HeldData.claims.roles = users[resp.username].user_roles
       /\ NamesAdmin(users[resp.username].user_roles)
          => /\ admin_handler(cookies, "index", users, TRUE).kind = "template"
             /\ admin_handler(cookies, "index", users, TRUE).view = "admin/index"

\* C11 witness: a user with the two-element role list <<"user", "admin">> logged in.
C11_Witness ==
    /\ LoginSucceeded
    /\ users[resp.username].user_roles = <<"user", "admin">>
    /\ HeldData.claims.roles = <<"user", "admin">>

\* C12: is_expired on claims with expiry E at clock value now is true exactly
\* when now >= E and false exactly when now < E; now = E counts as expired.
C12_ExpiredFromExpOn ==
    resp.op = "is_expired"
    => /\ now < PresentedData.claims.exp => resp.out.kind = "fresh"
       /\ now = PresentedData.claims.exp => resp.out.kind = "expired"
       /\ now > PresentedData.claims.exp => resp.out.kind = "expired"

\* C12 witness: is_expired was asked at the very second of the expiry.
C12_Witness ==
    /\ resp.op = "is_expired"
    /\ now = PresentedData.claims.exp
    /\ resp.out.kind = "expired"

\* C13: a token minted by jwt_generate at time T carries iat = T and
\* exp = T + 604800 with subject and roles copied from its arguments; it is
\* not expired at T + 604799 and is expired at T + 604800.
C13_MintedLifetime ==
    /\ LoginSucceeded
       => /\ HeldData.ok
          /\ HeldData.claims = UserRolesToken(now, now + 604800,
                                               users[resp.username].username,
                                               users[resp.username].user_roles)
          /\ ~is_expired(HeldData.claims, now + 604799)
          /\ is_expired(HeldData.claims, now + 604800)
    /\ resp.op = "is_expired"
       => /\ PresentedData.claims.exp = PresentedData.claims.iat + 604800
          /\ now = PresentedData.claims.iat + 604799 => resp.out.kind = "fresh"
          /\ now = PresentedData.claims.iat + 604800 => resp.out.kind = "expired"

\* C13 witness: is_expired was asked one second before the end of the week.
C13_Witness ==
    /\ resp.op = "is_expired"
    /\ now = PresentedData.claims.iat + 604799
    /\ resp.out.kind = "fresh"

\* The jar's token is let into /admin/index under the given users table
Authorized(jar, table) == admin_handler(jar, "index", table, TRUE).kind = "template"

\* C14: a token is a snapshot of the roles at mint time: a successful login
\* puts the roles of the row at that moment into the token, every step that
\* leaves the cookie alone (a change of the row's roles included) leaves the
\* authorization decision for it unchanged, and every decision on
\* /admin/index is the one the token's own roles give.
C14_TokenIsSnapshot ==
    [][ /\ (resp'.op = "login" /\ resp'.out.kind = "redirect" /\ resp'.out.location = "/")
           => decode(cookies'.value, KEY, "HS256").claims.roles
                 = users[resp'.username].user_roles
        /\ cookies' = cookies
           => (Authorized(cookies', users') <=> Authorized(cookies, users))
        /\ (resp'.op = "admin" /\ resp'.path = "index" /\ resp'.presented.present
              /\ decode(resp'.presented.value, KEY, "HS256").ok)
           => (resp'.out.kind = "template"
                 <=> NamesAdmin(decode(resp'.presented.value, KEY, "HS256").claims.roles))
      ]_vars

\* C14 witness: /admin/index was rendered for a token with the admin role
\* after the admin role was taken from its subject's row.
C14_Witness ==
    /\ resp.op = "admin"
    /\ resp.path = "index"
    /\ resp.presented.present
    /\ PresentedData.ok
    /\ users[PresentedData.claims.user].present
    /\ ~NamesAdmin(users[PresentedData.claims.user].user_roles)
    /\ resp.out.kind = "template"

\* C15: logout only clears the client's cookie: a token copied before the
\* logout and presented after it gets, until its expiry, the outcome it got
\* before the logout.
C15_ReplayAfterLogout ==
    /\ resp.op = "logout" => ~cookies.present
    /\ (saved.req.presented.present
          /\ resp.op = saved.req.op
          /\ resp.path = saved.req.path
          /\ resp.presented = saved.req.presented
          /\ now < PresentedData.claims.exp)
       => resp.out = saved.req.out

\* C15 witness: the copy was put back after a logout, some time later, and
\* /admin/index was rendered for it as before.
C15_Witness ==
    /\ saved.replayed
    /\ resp.op = "admin"
    /\ saved.req.op = "admin"
    /\ resp.presented = saved.req.presented
    /\ now > PresentedData.claims.iat
    /\ now < PresentedData.claims.exp
    /\ resp.out.kind = "template"

\* C16: POST /logout is idempotent: every logout leaves the jwt cookie
\* absent and redirects to /, and a logout that follows a logout changes
\* neither the jar nor the response.
C16_LogoutIdempotent ==
    [][ /\ resp'.op = "logout"
           => /\ ~cookies'.present
              /\ resp'.out.kind = "redirect"
              /\ resp'.out.location = "/"
        /\ (resp.op = "logout" /\ resp'.op = "logout")
           => (cookies' = cookies /\ resp'.out = resp.out)
      ]_vars

\* C16 witness: a logout found the jar already empty.
C16_Witness ==
    /\ resp.op = "logout"
    /\ ~resp.presented.present
    /\ ~cookies.present
    /\ resp.out.location = "/"

C18_AdminDispatch ==
    (resp.op = "admin" /\ resp.presented.present /\ PresentedData.ok
        /\ now < PresentedData.claims.exp /\ NamesAdmin(PresentedData.claims.roles))
    => CASE resp.path = "index" ->
              resp.out.kind = "template" /\ resp.out.view = "admin/index"
         [] resp.path = "user" ->
              /\ resp.out.kind = "template"
              /\ resp.out.view = "admin/console"
              /\ \A kv \in resp.out.context : kv[2][1] = PresentedData.claims.user
         [] OTHER -> resp.out = NotFound

\* C19: GET / with a valid token renders the index page with name equal to
\* the token's subject, and the context carries the admin marker exactly when
\* the token's roles contain "admin"; an empty role list is rendered without
\* the marker.
C19_IndexContext ==
    (resp.op = "index" /\ resp.presented.present /\ PresentedData.ok
        /\ now < PresentedData.claims.exp)
    => /\ resp.out.kind = "template"
       /\ resp.out.view = "index"
       /\ <<"name", <<PresentedData.claims.user>> >> \in resp.out.context
       /\ <<"admin", <<"true">> >> \in resp.out.context
             <=> NamesAdmin(PresentedData.claims.roles)
       /\ \A kv \in resp.out.context : kv[1] \in {"name", "admin"}

\* C19 witness: the index page was rendered for a token with no roles.
C19_Witness ==
    /\ resp.op = "index"
    /\ resp.presented.present
    /\ PresentedData.ok
    /\ PresentedData.claims.roles = <<>>
    /\ resp.out.context = {<<"name", <<PresentedData.claims.user>> >>}

\* C20: for a client that stores only what the server sets, the jwt cookie
\* changes only by a successful login, which sets it to the token minted by
\* that login, and by a logout, which removes it; failed logins, GET / and
\* GET /admin/<path> leave it as it was.
C20_CookieLifecycle ==
    [][ /\ cookies' # cookies
           => \/ /\ resp'.op = "login"
                 /\ resp'.out.kind = "redirect"
                 /\ resp'.out.location = "/"
              \/ resp'.op = "logout"
        /\ (resp'.op = "login" /\ resp'.out.kind = "redirect" /\ resp'.out.location = "/")
           => cookies' = Cookie_new(jwt_generate(users[resp'.username].username,
                                                users[resp'.username].user_roles, now))
        /\ resp'.op = "logout" => ~cookies'.present
        /\ (resp'.op = "login" /\ ~(resp'.out.kind = "redirect" /\ resp'.out.location = "/"))
           => cookies' = cookies
        /\ resp'.op \in {"index", "admin"} => cookies' = cookies
      ]_vars

\* C20 witness: a refused login left the cookie of an earlier login in place.
C20_Witness ==
    /\ resp.op = "login"
    /\ resp.out.kind = "redirect"
    /\ resp.out.location = "/login"
    /\ resp.presented.present
    /\ cookies = resp.presented
    /\ HeldData.ok

====
